---- MODULE Spec2Model ----
(***************************************************************************)
(* Model of src/extractor/pdf_parser.py (class PDFParser): the table path  *)
(* (parse_table_rows, _find_header_row, _parse_single_row) and the text    *)
(* fallback path (extract_from_text_pattern).                              *)
(*                                                                         *)
(* Python strings are sequences of one-character strings, so that upper(), *)
(* strip(), substring tests, int() and the regular expression are computed *)
(* character by character.  None is the one-element sequence NoneCell.     *)
(***************************************************************************)
EXTENDS Integers, Sequences, FiniteSets, TLC

VARIABLES op, table, text, month, pc, header_row_idx, data_rows, i,
          matches, prayer_times, raised

vars == <<op, table, text, month, pc, header_row_idx, data_rows, i,
          matches, prayer_times, raised>>

(***************************************************************************)
(* Bounds of the model.                                                    *)
(***************************************************************************)
MaxRows == 3
MaxLines == 2

(***************************************************************************)
(* Characters and Python's str methods.                                    *)
(***************************************************************************)
Digits == <<"0", "1", "2", "3", "4", "5", "6", "7", "8", "9">>
LowerLetters == <<"a", "b", "c", "d", "e", "f", "g", "h", "i", "j", "k", "l", "m",
                  "n", "o", "p", "q", "r", "s", "t", "u", "v", "w", "x", "y", "z">>
UpperLetters == <<"A", "B", "C", "D", "E", "F", "G", "H", "I", "J", "K", "L", "M",
                  "N", "O", "P", "Q", "R", "S", "T", "U", "V", "W", "X", "Y", "Z">>

IsDigit(c) == \E k \in 1..10 : Digits[k] = c
IsSpace(c) == c \in {" ", "\n", "\t"}
DigitVal(c) == (CHOOSE k \in 1..10 : Digits[k] = c) - 1

UpperChar(c) == IF \E k \in 1..26 : LowerLetters[k] = c
                THEN UpperLetters[CHOOSE k \in 1..26 : LowerLetters[k] = c]
                ELSE c
LowerChar(c) == IF \E k \in 1..26 : UpperLetters[k] = c
                THEN LowerLetters[CHOOSE k \in 1..26 : UpperLetters[k] = c]
                ELSE c
Upper(s) == [k \in 1..Len(s) |-> UpperChar(s[k])]
Lower(s) == [k \in 1..Len(s) |-> LowerChar(s[k])]

\* s.strip()
Strip(s) ==
    LET keep == {k \in 1..Len(s) : ~IsSpace(s[k])}
    IN  IF keep = {} THEN <<>>
        ELSE SubSeq(s, CHOOSE a \in keep : \A b \in keep : a <= b,
                       CHOOSE a \in keep : \A b \in keep : a >= b)

\* sub in s
Contains(s, sub) ==
    \E k \in 0..(Len(s) - Len(sub)) : SubSeq(s, k + 1, k + Len(sub)) = sub

\* re.search(r'\d', s)
HasDigit(s) == \E k \in 1..Len(s) : IsDigit(s[k])

\* int(s) for a string of decimal digits
RECURSIVE StrToInt(_)
StrToInt(s) == IF s = <<>> THEN 0
               ELSE 10 * StrToInt(SubSeq(s, 1, Len(s) - 1)) + DigitVal(s[Len(s)])

\* f"{n:02d}"
RECURSIVE IntToStr(_)
IntToStr(n) == IF n < 10 THEN <<Digits[n + 1]>>
               ELSE IntToStr(n \div 10) \o <<Digits[(n % 10) + 1]>>
Format02d(n) == IF n < 10 THEN <<"0">> \o IntToStr(n) ELSE IntToStr(n)

(***************************************************************************)
(* Python values: None, truthiness, str().                                 *)
(***************************************************************************)
NoneCell == <<"None">>
Truthy(cell) == cell # NoneCell /\ cell # <<>>
Str(cell) == IF cell = NoneCell THEN <<"N", "o", "n", "e">> ELSE cell
\* cell or ""
OrEmpty(cell) == IF Truthy(cell) THEN cell ELSE <<>>

\* Outcome of a call: a value, None, or a raised exception.
Ok(v) == [kind |-> "ok", val |-> v]
None == [kind |-> "none", val |-> <<>>]
Raise == [kind |-> "raise", val |-> <<>>]

(***************************************************************************)
(* Collaborators from src/utils (not part of this file): date resolver and *)
(* time cleaner.                                                           *)
(***************************************************************************)
\* parse_date(date_str, month): normalized "MM-DD", a failure signal, or an
\* exception.  The day is the leading run of digits of the token.
RECURSIVE LeadingDigits(_)
LeadingDigits(s) == IF s = <<>> \/ ~IsDigit(s[1]) THEN <<>>
                    ELSE <<s[1]>> \o LeadingDigits(Tail(s))

parse_date(date_str, m) ==
    IF Contains(date_str, <<"?">>) THEN Raise
    ELSE LET d == LeadingDigits(date_str)
         IN  IF d = <<>> \/ Len(d) > 2 \/ StrToInt(d) < 1 \/ StrToInt(d) > 31
             THEN None
             ELSE Ok(m \o <<"-">> \o Format02d(StrToInt(d)))

\* clean_time(s): a canonical time string or the empty string, or an exception.
clean_time(s) ==
    IF Contains(s, <<"!">>) THEN Raise
    ELSE IF HasDigit(s) /\ Contains(s, <<":">>) THEN Ok(Strip(s))
    ELSE Ok(<<>>)

(***************************************************************************)
(* The table path.                                                         *)
(***************************************************************************)
\* ' '.join([str(cell).upper() if cell else '' for cell in row])
RECURSIVE JoinCells(_)
JoinCells(row) ==
    IF row = <<>> THEN <<>>
    ELSE LET head == IF Truthy(row[1]) THEN Upper(Str(row[1])) ELSE <<>>
         IN  IF Len(row) = 1 THEN head
             ELSE head \o <<" ">> \o JoinCells(Tail(row))

FAJR == <<"F", "A", "J", "R">>
DATE == <<"D", "A", "T", "E">>
MAGHRIB == <<"M", "A", "G", "H", "R", "I", "B">>

\* the test of lines 86-88 on one row
IsHeaderRow(row) ==
    /\ row # <<>>
    /\ Len(row) >= 6
    /\ LET row_text == JoinCells(row)
       IN  (Contains(row_text, FAJR) \/ Contains(row_text, DATE))
           /\ Contains(row_text, MAGHRIB)

\* _find_header_row with the test of line 88 relaxed to any one of the three
\* words, and without the length test.
FindHeaderRowLoose(t) ==
    LET hits == {k \in 1..Len(t) :
                    \/ Contains(JoinCells(t[k]), FAJR)
                    \/ Contains(JoinCells(t[k]), DATE)
                    \/ Contains(JoinCells(t[k]), MAGHRIB)}
    IN  IF hits = {} THEN None
        ELSE Ok((CHOOSE k \in hits : \A j \in hits : k <= j) - 1)

\* _find_header_row returning the last qualifying row instead of the first.
FindHeaderRowLast(t) ==
    LET hits == {k \in 1..Len(t) : IsHeaderRow(t[k])}
    IN  IF hits = {} THEN None
        ELSE Ok((CHOOSE k \in hits : \A j \in hits : k >= j) - 1)

\* _find_header_row(table): the 0-based index of the first row that passes the
\* test, or None.
_find_header_row(t) ==
    LET hits == {k \in 1..Len(t) : IsHeaderRow(t[k])}
    IN  IF hits = {} THEN None
        ELSE Ok((CHOOSE k \in hits : \A j \in hits : k <= j) - 1)

NoneWords == {<<"n", "o", "n", "e">>, <<"n", "u", "l", "l">>, <<>>}
EssentialFields == {"fajr", "maghrib", "isha"}

\* Lines 98-116, the try block up to the dictionary: the candidate record,
\* None, or an exception of a collaborator.
BuildRecord(row, m) ==
    LET date_str == IF Truthy(row[1]) THEN Strip(Str(row[1])) ELSE <<>>
    IN  IF date_str = <<>> \/ Lower(date_str) \in NoneWords THEN None
        ELSE IF ~HasDigit(date_str) THEN None
        ELSE LET parsed_date == parse_date(date_str, m)
             IN  IF parsed_date.kind = "raise" THEN Raise
                 ELSE IF parsed_date.kind = "none" \/ parsed_date.val = <<>> THEN None
                 ELSE LET c == [k \in 2..6 |-> clean_time(Str(OrEmpty(row[k])))]
                          c7 == IF Len(row) > 6 THEN clean_time(Str(OrEmpty(row[7])))
                                ELSE Ok(<<>>)
                      IN  IF (\E k \in 2..6 : c[k].kind = "raise") \/ c7.kind = "raise"
                          THEN Raise
                          ELSE Ok([date |-> parsed_date.val,
                                   fajr |-> c[2].val, sunrise |-> c[3].val,
                                   dhuhr |-> c[4].val, asr |-> c[5].val,
                                   maghrib |-> c[6].val, isha |-> c7.val])

\* lines 119-120: all(prayer_data[field] for field in [...])
Gate(built) ==
    IF built.kind # "ok" THEN built
    ELSE IF \A f \in EssentialFields : built.val[f] # <<>> THEN built ELSE None

\* _parse_single_row without the except clause of lines 122-123.
ParseSingleRowNoCatch(row, m) ==
    IF row = <<>> \/ Len(row) < 6 THEN None
    ELSE Gate(BuildRecord(row, m))

\* _parse_single_row with any() in place of all() in the gate.
ParseSingleRowAnyField(row, m) ==
    IF row = <<>> \/ Len(row) < 6 THEN None
    ELSE LET built == BuildRecord(row, m)
         IN  IF built.kind # "ok" THEN None
             ELSE IF \E f \in EssentialFields : built.val[f] # <<>> THEN built
             ELSE None

\* _parse_single_row whose gate leaves isha out.
ParseSingleRowNoIsha(row, m) ==
    IF row = <<>> \/ Len(row) < 6 THEN None
    ELSE LET built == BuildRecord(row, m)
         IN  IF built.kind # "ok" THEN None
             ELSE IF \A f \in {"fajr", "maghrib"} : built.val[f] # <<>> THEN built
             ELSE None

\* _parse_single_row(row, month): the record, or None; every exception of the
\* try block is swallowed.
_parse_single_row(row, m) ==
    IF row = <<>> \/ Len(row) < 6 THEN None
    ELSE LET r == Gate(BuildRecord(row, m))
         IN  IF r.kind = "raise" THEN None ELSE r

\* data_rows = table[header_row_idx + 1:]
DataRows(t, idx) == SubSeq(t, idx + 2, Len(t))

\* an append that drops a record already present.
AppendUnique(list, prayer_data) ==
    IF \E k \in 1..Len(list) : list[k] = prayer_data THEN list
    ELSE Append(list, prayer_data)

\* prayer_times.append(prayer_data)
AppendRecord(list, prayer_data) == Append(list, prayer_data)

\* The loop of lines 76-79 over rows, as a whole: the list, or the exception
\* that leaves it.
RECURSIVE ParseRows(_, _, _)
ParseRows(rows, m, acc) ==
    IF rows = <<>> THEN Ok(acc)
    ELSE LET prayer_data == _parse_single_row(rows[1], m)
         IN  IF prayer_data.kind = "raise" THEN Raise
             ELSE ParseRows(Tail(rows), m,
                            IF prayer_data.kind = "ok"
                            THEN AppendRecord(acc, prayer_data.val) ELSE acc)

\* parse_table_rows(table, month) as a function of its arguments.
parse_table_rows(t, m) ==
    IF t = <<>> \/ Len(t) < 2 THEN Ok(<<>>)
    ELSE LET h == _find_header_row(t)
         IN  IF h.kind = "none" THEN Ok(<<>>)
             ELSE ParseRows(DataRows(t, h.val), m, <<>>)

(***************************************************************************)
(* Inputs of the table path: cells, rows and tables.                       *)
(***************************************************************************)
cDATE == <<"D", "A", "T", "E">>
cFAJR == <<"F", "A", "J", "R">>
cSUNRISE == <<"S", "U", "N", "R", "I", "S", "E">>
cDHUHR == <<"D", "H", "U", "H", "R">>
cASR == <<"A", "S", "R">>
cMAGHRIB == <<"M", "A", "G", "H", "R", "I", "B">>
cISHA == <<"I", "S", "H", "A">>
cDay == <<"D", "a", "y">>
cFajrLower == <<"f", "a", "j", "r">>
cMaghribMixed == <<"M", "a", "g", "h", "r", "i", "b">>
cMAG == <<"M", "A", "G">>
cHRIB == <<"H", "R", "I", "B">>
cNotes == <<"a", "f", "t", "e", "r", " ", "F", "a", "j", "r", ",", " ", "M", "a", "g", "h", "r", "i", "b">>
cD1 == <<"1">>
cD2 == <<" ", "2", " ">>
cD3 == <<"3", "r", "d">>
cD5 == <<"5">>
cD6 == <<"6">>
cD7 == <<"7">>
cD8 == <<"8">>
cD99 == <<"9", "9">>
cDBad == <<"1", "?">>
cT1 == <<"5", ":", "0", "0", " ", "A", "M">>
cT2 == <<" ", "6", ":", "3", "0", " ", "P", "M", " ">>
cT3 == <<"7", ":", "4", "5", " ", "P", "M">>
cDash == <<"-">>
cTBad == <<"5", ":", "0", "0", "!">>

\* header-like rows
HeaderRow6 == <<cDay, cFajrLower, NoneCell, <<>>, cASR, cMaghribMixed>>
HeaderShort == <<cFAJR, cMAGHRIB>>
HeaderSplit == <<cDATE, cFAJR, cSUNRISE, cDHUHR, cMAG, cHRIB, cISHA>>
\* data rows
RowGood1 == <<cD1, cT1, cT1, cT1, cT1, cT2, cT3>>
RowGoodNotes == <<cD3, cT1, NoneCell, cDash, cT1, cT2, cT3, cNotes>>
RowSix == <<cD2, cT1, cT1, cT1, cT1, cT2>>
RowDateFails == <<cD99, cT1, cT1, cT1, cT1, cT2, cT3>>
RowDateRaises == <<cDBad, cT1, cT1, cT1, cT1, cT2, cT3>>
RowCleanRaises == <<cD5, cT1, cTBad, cT1, cT1, cT2, cT3>>
RowNoFajr == <<cD6, NoneCell, cT1, cT1, cT1, cT2, cT3>>
RowNoMaghrib == <<cD7, cT1, cT1, cT1, cT1, cDash, cT3>>
RowNoIsha == <<cD8, cT1, cT1, cT1, cT1, cT2, <<>> >>

RowPool == {HeaderRow6, HeaderShort, HeaderSplit,
            RowGood1, RowGoodNotes, RowSix, RowDateFails,
            RowDateRaises, RowCleanRaises, RowNoFajr, RowNoMaghrib, RowNoIsha}

Tables == UNION {[1..n -> RowPool] : n \in 0..MaxRows}
Months == {<<"0", "3">>, <<"1", "1">>}

(***************************************************************************)
(* The text path: the pattern of lines 138-150 and re.findall.             *)
(* Positions are 1-based; a matcher returns the position after what it     *)
(* consumed, or 0 when it does not match.  Every quantifier of the pattern *)
(* is followed by a character outside its own class (digits by '-', ':' or *)
(* white space; white space by a digit or a letter; [Mm] by white space),  *)
(* so the greedy choice is the only one backtracking could accept.         *)
(***************************************************************************)
At(t, p) == IF p >= 1 /\ p <= Len(t) THEN t[p] ELSE ""

\* (Jan|Feb|...|Dec) with re.IGNORECASE
MonthAbbrevs == {<<"J", "A", "N">>,
                 <<"F", "E", "B">>,
                 <<"M", "A", "R">>,
                 <<"A", "P", "R">>,
                 <<"M", "A", "Y">>,
                 <<"J", "U", "N">>,
                 <<"J", "U", "L">>,
                 <<"A", "U", "G">>,
                 <<"S", "E", "P">>,
                 <<"O", "C", "T">>,
                 <<"N", "O", "V">>,
                 <<"D", "E", "C">>}
MonthAt(t, p) == IF p + 2 <= Len(t) /\ Upper(SubSeq(t, p, p + 2)) \in MonthAbbrevs
                 THEN p + 3 ELSE 0

\* \d{1,2}
DigitsAt(t, p) == IF ~IsDigit(At(t, p)) THEN 0
                  ELSE IF IsDigit(At(t, p + 1)) THEN p + 2 ELSE p + 1

\* \s*
RECURSIVE SkipSpace(_, _)
SkipSpace(t, p) == IF IsSpace(At(t, p)) THEN SkipSpace(t, p + 1) ELSE p

\* \s+
SpaceAt(t, p) == IF IsSpace(At(t, p)) THEN SkipSpace(t, p) ELSE 0

\* \d{1,2}:\d{2}\s*[APap][Mm]? with the letter optional
TimeTokenOptionalSuffix(t, p) ==
    LET a == DigitsAt(t, p)
    IN  IF a = 0 \/ At(t, a) # ":" \/ ~IsDigit(At(t, a + 1)) \/ ~IsDigit(At(t, a + 2))
        THEN 0
        ELSE LET b == SkipSpace(t, a + 3)
             IN  IF At(t, b) \in {"A", "P", "a", "p"}
                 THEN IF At(t, b + 1) \in {"M", "m"} THEN b + 2 ELSE b + 1
                 ELSE a + 3

\* \d{1,2}:\d{2}\s*[APap][Mm]?
TimeToken(t, p) ==
    LET a == DigitsAt(t, p)
    IN  IF a = 0 \/ At(t, a) # ":" \/ ~IsDigit(At(t, a + 1)) \/ ~IsDigit(At(t, a + 2))
        THEN 0
        ELSE LET b == SkipSpace(t, a + 3)
             IN  IF At(t, b) \in {"A", "P", "a", "p"}
                 THEN IF At(t, b + 1) \in {"M", "m"} THEN b + 2 ELSE b + 1
                 ELSE 0

\* \s+(time token): the span of the captured token, or from = 0
NoSpan == [from |-> 0, to |-> 0]
SepToken(t, p) ==
    LET a == SpaceAt(t, p)
        b == IF a = 0 THEN 0 ELSE TimeToken(t, a)
    IN  IF b = 0 THEN NoSpan ELSE [from |-> a, to |-> b]

\* the day marker, lines 139-143: (\d{1,2})-(Mon) | (Mon)-(\d{1,2})
NoMarker == [to |-> 0, day1 |-> <<>>, mon1 |-> <<>>, mon2 |-> <<>>, day2 |-> <<>>]
DayMarker(t, p) ==
    LET d == DigitsAt(t, p)
        m == MonthAt(t, p)
    IN  IF d # 0 /\ At(t, d) = "-" /\ MonthAt(t, d + 1) # 0
        THEN [to |-> d + 4, day1 |-> SubSeq(t, p, d - 1), mon1 |-> SubSeq(t, d + 1, d + 3),
              mon2 |-> <<>>, day2 |-> <<>>]
        ELSE IF m # 0 /\ At(t, m) = "-" /\ DigitsAt(t, m + 1) # 0
        THEN [to |-> DigitsAt(t, m + 1), day1 |-> <<>>, mon1 |-> <<>>,
              mon2 |-> SubSeq(t, p, m - 1), day2 |-> SubSeq(t, m + 1, DigitsAt(t, m + 1) - 1)]
        ELSE NoMarker

\* the consecutive \s+(time token) groups from p on, at most n of them
RECURSIVE SepTokens(_, _, _)
SepTokens(t, p, n) ==
    IF n = 0 THEN <<>>
    ELSE LET tok == SepToken(t, p)
         IN  IF tok.from = 0 THEN <<>>
             ELSE <<tok>> \o SepTokens(t, tok.to, n - 1)

\* lines 144-147: four mandatory time tokens; lines 148-149: two optional ones
MandatoryTokens == 4
OptionalTokens == 2

\* the groups of one match, as re.findall returns them ('' for a group that
\* did not take part), with the span of the match
NoMatch == [from |-> 0, to |-> 0, day1 |-> <<>>, mon1 |-> <<>>, mon2 |-> <<>>, day2 |-> <<>>,
            fajr |-> <<>>, sunrise |-> <<>>, dhuhr |-> <<>>, asr |-> <<>>,
            maghrib |-> <<>>, isha |-> <<>>]

Cap(t, toks, k) == IF k > Len(toks) THEN <<>> ELSE SubSeq(t, toks[k].from, toks[k].to - 1)

\* the pattern tried at position p with `mandatory` time tokens required: a
\* time group that does not match ends the run of groups, since the optional
\* group after it would have to match at the same place
MatchWith(t, p, mandatory) ==
    LET dm == DayMarker(t, p)
        toks == IF dm.to = 0 THEN <<>>
                ELSE SepTokens(t, dm.to, MandatoryTokens + OptionalTokens)
    IN  IF Len(toks) < mandatory THEN NoMatch
        ELSE [from |-> p, to |-> toks[Len(toks)].to,
              day1 |-> dm.day1, mon1 |-> dm.mon1, mon2 |-> dm.mon2, day2 |-> dm.day2,
              fajr |-> Cap(t, toks, 1), sunrise |-> Cap(t, toks, 2),
              dhuhr |-> Cap(t, toks, 3), asr |-> Cap(t, toks, 4),
              maghrib |-> Cap(t, toks, 5), isha |-> Cap(t, toks, 6)]

\* the pattern of lines 138-150 tried at position p
MatchAt(t, p) == MatchWith(t, p, MandatoryTokens)

\* re.findall(pattern, text, re.IGNORECASE): the non-overlapping matches,
\* scanning from the left
RECURSIVE FindAllFrom(_, _)
FindAllFrom(t, p) ==
    IF p > Len(t) THEN <<>>
    ELSE LET m == MatchAt(t, p)
         IN  IF m.from = 0 THEN FindAllFrom(t, p + 1)
             ELSE <<m>> \o FindAllFrom(t, m.to)

findall(t) == FindAllFrom(t, 1)

\* the month taken from the abbreviation of the match instead of the argument
RecordOfMatchOwnMonth(match, m) ==
    LET day == IF match.day1 # <<>> THEN match.day1 ELSE match.day2
        mon == Upper(IF match.mon1 # <<>> THEN match.mon1 ELSE match.mon2)
        num == CHOOSE k \in 1..12 : <<<<"J", "A", "N">>, <<"F", "E", "B">>, <<"M", "A", "R">>, <<"A", "P", "R">>, <<"M", "A", "Y">>, <<"J", "U", "N">>, <<"J", "U", "L">>, <<"A", "U", "G">>, <<"S", "E", "P">>, <<"O", "C", "T">>, <<"N", "O", "V">>, <<"D", "E", "C">>>>[k] = mon
    IN  [date |-> Format02d(num) \o <<"-">> \o Format02d(StrToInt(day)),
         fajr |-> Strip(match.fajr), sunrise |-> Strip(match.sunrise),
         dhuhr |-> Strip(match.dhuhr), asr |-> Strip(match.asr),
         maghrib |-> IF match.maghrib # <<>> THEN Strip(match.maghrib) ELSE <<>>,
         isha |-> IF match.isha # <<>> THEN Strip(match.isha) ELSE <<>>]

\* the fifth token stored as isha
RecordOfMatchSwapped(match, m) ==
    LET day == IF match.day1 # <<>> THEN match.day1 ELSE match.day2
    IN  [date |-> m \o <<"-">> \o Format02d(StrToInt(day)),
         fajr |-> Strip(match.fajr), sunrise |-> Strip(match.sunrise),
         dhuhr |-> Strip(match.dhuhr), asr |-> Strip(match.asr),
         maghrib |-> IF match.isha # <<>> THEN Strip(match.isha) ELSE <<>>,
         isha |-> IF match.maghrib # <<>> THEN Strip(match.maghrib) ELSE <<>>]

\* lines 156-168: the record of one match
RecordOfMatch(match, m) ==
    LET day == IF match.day1 # <<>> THEN match.day1 ELSE match.day2
    IN  [date |-> m \o <<"-">> \o Format02d(StrToInt(day)),
         fajr |-> Strip(match.fajr), sunrise |-> Strip(match.sunrise),
         dhuhr |-> Strip(match.dhuhr), asr |-> Strip(match.asr),
         maghrib |-> IF match.maghrib # <<>> THEN Strip(match.maghrib) ELSE <<>>,
         isha |-> IF match.isha # <<>> THEN Strip(match.isha) ELSE <<>>]

(***************************************************************************)
(* Inputs of the text path: lines of a day marker and time tokens.         *)
(***************************************************************************)
Marker1 == <<"3", "-", "M", "a", "r">>
Marker2 == <<"A", "p", "r", "-", "1", "4">>
Marker3 == <<"0", "7", "-", "d", "e", "c">>

StyleSuffix == <<<<"5", ":", "0", "0", "A", "M">>,
    <<"6", ":", "1", "5", "A", "M">>,
    <<"1", "2", ":", "3", "0", "P", "M">>,
    <<"3", ":", "4", "5", "P", "M">>,
    <<"6", ":", "3", "0", "P", "M">>,
    <<"7", ":", "4", "5", "P", "M">>>>
StyleSpaced == <<<<"5", ":", "0", "0", " ", "a", "m">>,
    <<"6", ":", "1", "5", " ", "A">>,
    <<"1", "2", ":", "3", "0", " ", "p">>,
    <<"3", ":", "4", "5", " ", "P", "m">>,
    <<"6", ":", "3", "0", " ", " ", "p", "M">>,
    <<"7", ":", "4", "5", " ", "p">>>>
StyleBare == <<<<"5", ":", "0", "0">>,
    <<"6", ":", "1", "5">>,
    <<"1", "2", ":", "3", "0">>,
    <<"3", ":", "4", "5">>,
    <<"6", ":", "3", "0">>,
    <<"7", ":", "4", "5">>>>
StyleBareFifth == <<<<"5", ":", "0", "0", "A", "M">>,
    <<"6", ":", "1", "5", "A", "M">>,
    <<"1", "2", ":", "3", "0", "P", "M">>,
    <<"3", ":", "4", "5", "P", "M">>,
    <<"6", ":", "3", "0">>,
    <<"7", ":", "4", "5", "P", "M">>>>

RECURSIVE Tokens(_, _)
Tokens(style, n) == IF n = 0 THEN <<>>
                    ELSE Tokens(style, n - 1) \o <<" ">> \o style[n]
Line(marker, style, n) == marker \o Tokens(style, n)

ProseLine == <<"Z", "o", "n", "e", " ", "3">>
ContinuationLine == <<"6", ":", "3", "0", "P", "M", " ", "7", ":", "4", "5", "P", "M">>

Lines == {Line(Marker1, StyleSuffix, n) : n \in 3..6}
         \cup {Line(mk, StyleSuffix, n) : mk \in {Marker2, Marker3}, n \in {4, 5}}
         \cup {Line(Marker1, st, n) : st \in {StyleSpaced, StyleBare, StyleBareFifth},
                                      n \in {4, 6}}
         \cup {ProseLine, ContinuationLine}

\* all_text += page_text + "\n" (line 28)
RECURSIVE JoinLines(_)
JoinLines(ls) == IF ls = <<>> THEN <<>>
                 ELSE ls[1] \o <<"\n">> \o JoinLines(Tail(ls))

Texts == {JoinLines(ls) : ls \in UNION {[1..n -> Lines] : n \in 0..MaxLines}}

(***************************************************************************)
(* The state machine: one call of parse_table_rows(table, month) or of     *)
(* extract_from_text_pattern(text, month), step by step.                   *)
(***************************************************************************)
Init ==
    /\ op \in {"table", "text"}
    /\ month \in Months
    /\ table \in (IF op = "table" THEN Tables ELSE {<<>>})
    /\ text \in (IF op = "text" THEN Texts ELSE {<<>>})
    /\ pc = "start"
    /\ header_row_idx = None
    /\ data_rows = <<>>
    /\ i = 0
    /\ matches = <<>>
    /\ prayer_times = <<>>
    /\ raised = FALSE

\* lines 64-65: an empty or one-row table returns []
CheckTable ==
    /\ op = "table" /\ pc = "start"
    /\ pc' = IF table = <<>> \/ Len(table) < 2 THEN "done" ELSE "find_header"
    /\ UNCHANGED <<op, table, text, month, header_row_idx, data_rows, i,
                   matches, prayer_times, raised>>

\* lines 68-74: no header returns []; otherwise the rows after it are the data
FindHeader ==
    /\ pc = "find_header"
    /\ header_row_idx' = _find_header_row(table)
    /\ IF header_row_idx'.kind = "none"
       THEN pc' = "done" /\ UNCHANGED data_rows
       ELSE pc' = "loop" /\ data_rows' = DataRows(table, header_row_idx'.val)
    /\ UNCHANGED <<op, table, text, month, i, matches, prayer_times, raised>>

\* lines 76-79: one iteration of the loop over data_rows
ParseRow ==
    /\ pc = "loop" /\ i < Len(data_rows)
    /\ LET prayer_data == _parse_single_row(data_rows[i + 1], month)
       IN  IF prayer_data.kind = "raise"
           THEN raised' = TRUE /\ pc' = "done" /\ UNCHANGED <<i, prayer_times>>
           ELSE /\ i' = i + 1
                /\ prayer_times' = IF prayer_data.kind = "ok"
                                   THEN AppendRecord(prayer_times, prayer_data.val)
                                   ELSE prayer_times
                /\ UNCHANGED <<pc, raised>>
    /\ UNCHANGED <<op, table, text, month, header_row_idx, data_rows, matches>>

\* line 81
ReturnTable ==
    /\ pc = "loop" /\ i = Len(data_rows)
    /\ pc' = "done"
    /\ UNCHANGED <<op, table, text, month, header_row_idx, data_rows, i,
                   matches, prayer_times, raised>>

\* lines 152-153
FindAll ==
    /\ op = "text" /\ pc = "start"
    /\ matches' = findall(text)
    /\ pc' = "emit"
    /\ UNCHANGED <<op, table, text, month, header_row_idx, data_rows, i,
                   prayer_times, raised>>

\* the loop of lines 155-169 with the gate of the table path applied to it
EmitMatchFiltered ==
    /\ pc = "emit" /\ i < Len(matches)
    /\ LET prayer_data == RecordOfMatch(matches[i + 1], month)
       IN  prayer_times' = IF prayer_data.maghrib # <<>> /\ prayer_data.isha # <<>>
                           THEN AppendRecord(prayer_times, prayer_data)
                           ELSE prayer_times
    /\ i' = i + 1
    /\ UNCHANGED <<op, table, text, month, pc, header_row_idx, data_rows,
                   matches, raised>>

\* lines 155-169: one iteration of the loop over matches
EmitMatch ==
    /\ pc = "emit" /\ i < Len(matches)
    /\ prayer_times' = AppendRecord(prayer_times, RecordOfMatch(matches[i + 1], month))
    /\ i' = i + 1
    /\ UNCHANGED <<op, table, text, month, pc, header_row_idx, data_rows,
                   matches, raised>>

\* line 171
ReturnText ==
    /\ pc = "emit" /\ i = Len(matches)
    /\ pc' = "done"
    /\ UNCHANGED <<op, table, text, month, header_row_idx, data_rows, i,
                   matches, prayer_times, raised>>

Next ==
    \/ CheckTable
    \/ FindHeader
    \/ ParseRow
    \/ ReturnTable
    \/ FindAll
    \/ EmitMatch
    \/ ReturnText

Spec == Init /\ [][Next]_vars

TypeOK ==
    /\ op \in {"table", "text"}
    /\ pc \in {"start", "find_header", "loop", "emit", "done"}
    /\ i \in 0..(Len(data_rows) + Len(matches))
    /\ raised \in BOOLEAN

(***************************************************************************)
(* Properties of the table path.                                           *)
(***************************************************************************)
TableDone == op = "table" /\ pc = "done"
TextDone == op = "text" /\ pc = "done"
HeaderFound == TableDone /\ header_row_idx.kind = "ok"

\* what cell k (0-based) of a row cleans to; a missing cell gives ""
Cleaned(row, k) == IF Len(row) < k + 1 THEN Ok(<<>>)
                   ELSE clean_time(Str(OrEmpty(row[k + 1])))
CleansEmpty(row, k) == Cleaned(row, k).kind = "ok" /\ Cleaned(row, k).val = <<>>
LacksEssential(row) == CleansEmpty(row, 1) \/ CleansEmpty(row, 5) \/ CleansEmpty(row, 6)
DateToken(row) == IF row # <<>> /\ Truthy(row[1]) THEN Strip(Str(row[1])) ELSE <<>>

\* C1: every record in the output of parse_table_rows has non-empty fajr,
\* maghrib and isha, and a data row one of whose cells 1, 5, 6 cleans to the
\* empty string adds no record: the records number at most the processed
\* rows whose three cells all clean to something.
C1_EssentialFieldsPresent ==
    TableDone =>
        /\ \A k \in 1..Len(prayer_times) :
              /\ prayer_times[k].fajr # <<>>
              /\ prayer_times[k].maghrib # <<>>
              /\ prayer_times[k].isha # <<>>
        /\ Len(prayer_times) <=
              Cardinality({k \in 1..i : ~LacksEssential(data_rows[k])})

C1_Witness ==
    /\ TableDone /\ ~raised
    /\ Len(prayer_times) >= 1
    /\ \E k \in 1..Len(data_rows) :
          /\ LacksEssential(data_rows[k])
          /\ Len(data_rows[k]) >= 7
          /\ parse_date(DateToken(data_rows[k]), month).kind = "ok"

\* the joined, uppercased text of a row names MAGHRIB and FAJR or DATE
NamesColumns(row) ==
    /\ Contains(JoinCells(row), MAGHRIB)
    /\ Contains(JoinCells(row), FAJR) \/ Contains(JoinCells(row), DATE)

\* C2: a table none of whose rows contains both "MAGHRIB" and ("FAJR" or
\* "DATE") in its uppercased joined text yields the empty sequence, whatever
\* valid data rows it holds.
C2_NoHeaderNoRecords ==
    (TableDone /\ \A k \in 1..Len(table) : ~NamesColumns(table[k])) =>
        /\ prayer_times = <<>>
        /\ ~raised
        /\ i = 0

C2_Witness ==
    /\ TableDone
    /\ \A k \in 1..Len(table) : ~NamesColumns(table[k])
    /\ Len(table) >= 2
    /\ \E k \in 1..Len(table) : _parse_single_row(table[k], month).kind = "ok"
    /\ prayer_times = <<>>

\* the ways a data row fails to parse: too few cells, a date token without
\* a digit, the date resolver failing or raising, the time cleaner raising
RaisesInCleaner(row) == \E k \in 1..6 : Cleaned(row, k).kind = "raise"
FailsToParse(row, m) ==
    \/ Len(row) < 6
    \/ ~HasDigit(DateToken(row))
    \/ parse_date(DateToken(row), m).kind \in {"none", "raise"}
    \/ RaisesInCleaner(row)

RemoveAt(t, k) == SubSeq(t, 1, k - 1) \o SubSeq(t, k + 1, Len(t))

\* C3: no exception leaves parse_table_rows, and when a data row fails to
\* parse the output is the output for the table without that row.
C3_FaultIsolation ==
    /\ ~raised
    /\ HeaderFound =>
          \A k \in (header_row_idx.val + 2)..Len(table) :
              FailsToParse(table[k], month) =>
                  parse_table_rows(RemoveAt(table, k), month) = Ok(prayer_times)

C3_Witness ==
    /\ HeaderFound /\ ~raised
    /\ \E k \in 1..Len(data_rows) : \E j \in (k + 1)..Len(data_rows) :
          /\ Len(data_rows[k]) >= 6
          /\ \/ RaisesInCleaner(data_rows[k])
             \/ parse_date(DateToken(data_rows[k]), month).kind = "raise"
          /\ _parse_single_row(data_rows[j], month).kind = "ok"
    /\ Len(prayer_times) >= 1

\* C4: the header is the qualifying row of lowest index; the data rows are
\* exactly the rows after it; every record comes from one of them; a table
\* whose header is its last row yields nothing.
C4_FirstHeaderRowsAfter ==
    /\ (TableDone /\ header_row_idx.kind = "none") =>
          (Len(table) < 2 \/ \A k \in 1..Len(table) : ~IsHeaderRow(table[k]))
    /\ HeaderFound =>
          LET h == header_row_idx.val + 1
          IN  /\ h \in 1..Len(table)
              /\ IsHeaderRow(table[h])
              /\ \A j \in 1..(h - 1) : ~IsHeaderRow(table[j])
              /\ Len(data_rows) = Len(table) - h
              /\ \A k \in 1..Len(data_rows) : data_rows[k] = table[h + k]
              /\ i = Len(data_rows)
              /\ \A n \in 1..Len(prayer_times) : \E k \in 1..i :
                    _parse_single_row(table[h + k], month) = Ok(prayer_times[n])
              /\ (h = Len(table)) => prayer_times = <<>>

C4_Witness ==
    /\ HeaderFound
    /\ header_row_idx.val = 0
    /\ _parse_single_row(table[1], month).kind = "ok"
    /\ \E k \in 2..Len(table) : IsHeaderRow(table[k])
    /\ Len(prayer_times) = 1
    /\ prayer_times[1] # _parse_single_row(table[1], month).val

\* the records of the accepted rows among rows, in the order of the rows
RECURSIVE RecordsOf(_, _)
RecordsOf(rows, m) ==
    IF rows = <<>> THEN <<>>
    ELSE LET last == _parse_single_row(rows[Len(rows)], m)
         IN  RecordsOf(SubSeq(rows, 1, Len(rows) - 1), m)
                 \o (IF last.kind = "ok" THEN <<last.val>> ELSE <<>>)

\* C5: the output is the sequence of the records of the accepted data rows,
\* in the order of the rows, duplicates included.
C5_OrderPreserved ==
    HeaderFound =>
        /\ i = Len(data_rows)
        /\ prayer_times = RecordsOf(data_rows, month)
        /\ Len(prayer_times) =
              Cardinality({k \in 1..Len(data_rows) :
                              _parse_single_row(data_rows[k], month).kind = "ok"})

C5_Witness ==
    /\ HeaderFound
    /\ Len(prayer_times) = 2
    /\ \/ prayer_times[1] = prayer_times[2]
       \/ StrToInt(SubSeq(prayer_times[1].date, 4, 5))
              > StrToInt(SubSeq(prayer_times[2].date, 4, 5))

\* C9: a data row of exactly 6 cells adds no record: the records number at
\* most the processed rows of 7 cells or more, and a table whose rows all
\* have 6 cells yields the empty sequence.
C9_SixCellRowsRejected ==
    HeaderFound =>
        /\ Len(prayer_times) <= Cardinality({k \in 1..i : Len(data_rows[k]) >= 7})
        /\ (\A k \in 1..Len(table) : Len(table[k]) = 6) => prayer_times = <<>>

C9_Witness ==
    /\ HeaderFound
    /\ \A k \in 1..Len(table) : Len(table[k]) = 6
    /\ \E k \in 1..Len(data_rows) :
          /\ parse_date(DateToken(data_rows[k]), month).kind = "ok"
          /\ ~CleansEmpty(data_rows[k], 1) /\ ~CleansEmpty(data_rows[k], 5)
    /\ prayer_times = <<>>

(***************************************************************************)
(* Properties of the text path.                                            *)
(***************************************************************************)
TimeFields == {"fajr", "sunrise", "dhuhr", "asr", "maghrib", "isha"}

\* a day marker starts at p, and n time tokens, each after white space,
\* follow it
MarkerWithTokens(t, p, n) ==
    /\ DayMarker(t, p).to # 0
    /\ Len(SepTokens(t, DayMarker(t, p).to, n)) = n

\* C6: one record per match, in the order of the matches, which do not
\* overlap and follow each other from left to right; no match is filtered
\* out; maghrib and isha are "" when not captured; a day marker with fewer
\* than four time tokens after it starts no match, and one with four or more
\* lies in a match.
C6_OneRecordPerMatch ==
    /\ (op = "text" /\ pc = "emit") => Len(prayer_times) = i
    /\ TextDone =>
          /\ Len(prayer_times) = Len(matches)
          /\ \A k \in 1..Len(matches) :
                /\ matches[k].from < matches[k].to
                /\ k < Len(matches) => matches[k].to <= matches[k + 1].from
                /\ \A f \in TimeFields : prayer_times[k][f] = Strip(matches[k][f])
                /\ matches[k].asr # <<>>
          /\ \A p \in 1..Len(text) :
                LET dm == DayMarker(text, p)
                IN  dm.to # 0 =>
                      IF Len(SepTokens(text, dm.to, MandatoryTokens)) < MandatoryTokens
                      THEN \A k \in 1..Len(matches) : matches[k].from # p
                      ELSE \E k \in 1..Len(matches) :
                              matches[k].from <= p /\ p < matches[k].to

C6_Witness ==
    /\ TextDone
    /\ Len(prayer_times) = 1
    /\ prayer_times[1].maghrib = <<>> /\ prayer_times[1].isha = <<>>
    /\ \E p \in 1..Len(text) :
          /\ DayMarker(text, p).to # 0
          /\ ~MarkerWithTokens(text, p, MandatoryTokens)
          /\ MarkerWithTokens(text, p, MandatoryTokens - 1)

BareFour == JoinLines(<<Line(Marker1, StyleBare, 4)>>)
SuffixFour == JoinLines(<<Line(Marker1, StyleSuffix, 4)>>)
HasMeridiemLetter(s) == \E k \in 1..Len(s) : s[k] \in {"A", "P", "a", "p"}

\* C7 as stated: the text "3-Mar 5:00 6:15 12:30 3:45", whose time tokens
\* carry no AM/PM letter, is matched and yields one record.
C7_BareTokensMatch ==
    (TextDone /\ text = BareFour) => Len(prayer_times) = 1

\* C7 amended: the A or P letter of a time token is mandatory (only the M
\* after it and the white space before it are optional): the text
\* "3-Mar 5:00 6:15 12:30 3:45" yields no record, the same text with
\* suffixes yields one, and every time field of a record that is not empty
\* holds an A or a P.
C7_MeridiemLetterRequired ==
    TextDone =>
        /\ text = BareFour => prayer_times = <<>>
        /\ text = SuffixFour => Len(prayer_times) = 1
        /\ \A k \in 1..Len(prayer_times) : \A f \in TimeFields :
              prayer_times[k][f] # <<>> => HasMeridiemLetter(prayer_times[k][f])

C7_Witness ==
    /\ TextDone
    /\ text = BareFour
    /\ DayMarker(text, 1).to # 0
    /\ prayer_times = <<>>

\* C8: the date of a record is the month argument, "-", and the matched day
\* as two digits, the day being the non-empty one of the two day captures;
\* the month abbreviation of the match plays no part.
C8_DateFromArgumentMonth ==
    TextDone =>
        \A k \in 1..Len(prayer_times) :
            LET date == prayer_times[k].date
                day == IF matches[k].day1 # <<>> THEN matches[k].day1 ELSE matches[k].day2
                n == Len(month)
            IN  /\ day # <<>>
                /\ (matches[k].day1 = <<>>) # (matches[k].day2 = <<>>)
                /\ Len(date) = n + 3
                /\ SubSeq(date, 1, n) = month
                /\ date[n + 1] = "-"
                /\ IsDigit(date[n + 2]) /\ IsDigit(date[n + 3])
                /\ 10 * DigitVal(date[n + 2]) + DigitVal(date[n + 3]) = StrToInt(day)

C8_Witness ==
    /\ TextDone
    /\ month = <<"0", "3">>
    /\ Len(prayer_times) = 2
    /\ matches[1].mon2 = <<"A", "p", "r">>
    /\ prayer_times[1].date = <<"0", "3", "-", "1", "4">>
    /\ matches[2].day1 = <<"3">>
    /\ prayer_times[2].date = <<"0", "3", "-", "0", "3">>

\* C10: in every record of the text path fajr, sunrise, dhuhr and asr are
\* not empty, and isha is not empty only if maghrib is not: a fifth time
\* token goes to maghrib.
C10_FifthTokenIsMaghrib ==
    op = "text" =>
        \A k \in 1..Len(prayer_times) :
            /\ prayer_times[k].fajr # <<>>
            /\ prayer_times[k].sunrise # <<>>
            /\ prayer_times[k].dhuhr # <<>>
            /\ prayer_times[k].asr # <<>>
            /\ prayer_times[k].isha # <<>> => prayer_times[k].maghrib # <<>>

C10_Witness ==
    /\ TextDone
    /\ \E k \in 1..Len(prayer_times) :
          /\ prayer_times[k].maghrib # <<>>
          /\ prayer_times[k].isha = <<>>
          /\ MarkerWithTokens(text, matches[k].from, MandatoryTokens + 1)
          /\ ~MarkerWithTokens(text, matches[k].from, MandatoryTokens + OptionalTokens)

====
